---------------------------- MODULE Spec2Model ----------------------------
(***************************************************************************)
(* A model of the Excel search engine of src/backend/server.py: the text   *)
(* normalizer, the category-gated relevance scorer, and the upload /       *)
(* search / count / clear handlers over the product store.                 *)
(*                                                                         *)
(* Text is a sequence of characters.  An ASCII character is the string of  *)
(* that character; a non-ASCII character is named by its code point        *)
(* ("U00E7" is c-cedilla).  Scores are exact rationals <<n, d>> in lowest  *)
(* terms: the sums and ratios of the scorer (awards 1.0, 0.8, 0.5 over at  *)
(* most a handful of tokens) compare against 0.7 and 0.5 in IEEE doubles   *)
(* exactly as they do in the rationals.                                    *)
(***************************************************************************)
EXTENDS Bags, FiniteSets, Integers, Naturals, Sequences, TLC

(***************************************************************************)
(* Bounds of the model.                                                    *)
(***************************************************************************)
MaxQueryLen == 2

MaxRows == 3

MaxUploads == 2

\* the longest text normalize_text is called on when run on its own
MaxTextLen == 3

(***************************************************************************)
(* Characters.                                                             *)
(***************************************************************************)
AsciiLowerLetters ==
    {"a","b","c","d","e","f","g","h","i","j","k","l","m",
     "n","o","p","q","r","s","t","u","v","w","x","y","z"}

Digits == {"0","1","2","3","4","5","6","7","8","9"}

\* Letters outside ASCII that str.lower() leaves alone and that the
\* replacement table does not touch: n-tilde, sharp s.  They match \w.
OtherLetters == {"U00F1", "U00DF"}

\* What \s matches among the characters used: space, tab, newline.
Whitespace == {" ", "\t", "\n"}

\* str.lower() on one character.  U0130 (capital dotted I) lowers to two
\* characters: "i" and the combining dot above U0307.
LowerTable ==
    [A |-> <<"a">>, B |-> <<"b">>, C |-> <<"c">>, D |-> <<"d">>, E |-> <<"e">>,
     F |-> <<"f">>, G |-> <<"g">>, H |-> <<"h">>, I |-> <<"i">>, J |-> <<"j">>,
     K |-> <<"k">>, L |-> <<"l">>, M |-> <<"m">>, N |-> <<"n">>, O |-> <<"o">>,
     P |-> <<"p">>, Q |-> <<"q">>, R |-> <<"r">>, S |-> <<"s">>, T |-> <<"t">>,
     U |-> <<"u">>, V |-> <<"v">>, W |-> <<"w">>, X |-> <<"x">>, Y |-> <<"y">>,
     Z |-> <<"z">>,
     U00C7 |-> <<"U00E7">>, U011E |-> <<"U011F">>, U00D6 |-> <<"U00F6">>,
     U015E |-> <<"U015F">>, U00DC |-> <<"U00FC">>, U00C2 |-> <<"U00E2">>,
     U00CE |-> <<"U00EE">>, U00DB |-> <<"U00FB">>, U00C9 |-> <<"U00E9">>,
     U00D1 |-> <<"U00F1">>,
     U0130 |-> <<"i", "U0307">>]

\* The replacement table of normalize_text.
replacements ==
    [U00E7 |-> "c", U011F |-> "g", U0131 |-> "i", U00F6 |-> "o",
     U015F |-> "s", U00FC |-> "u", U00E2 |-> "a", U00EE |-> "i",
     U00FB |-> "u", U00E9 |-> "e"]

\* \w: alphanumeric characters and the underscore.  Before the replacement
\* table is applied the accented lowercase letters are word characters too.
IsWordChar(c) ==
    \/ c \in AsciiLowerLetters
    \/ c \in Digits
    \/ c = "_"
    \/ c \in OtherLetters
    \/ c \in DOMAIN replacements
    \/ c \in DOMAIN LowerTable

IsSpace(c) == c \in Whitespace

(***************************************************************************)
(* Python string operations on character sequences.                        *)
(***************************************************************************)
RECURSIVE Flatten(_)
Flatten(ss) ==
    IF ss = <<>> THEN <<>> ELSE Head(ss) \o Flatten(Tail(ss))

\* str.lower()
lower(text) ==
    Flatten([i \in 1..Len(text) |->
        IF text[i] \in DOMAIN LowerTable THEN LowerTable[text[i]] ELSE <<text[i]>>])

\* Variant: only the first occurrence of each character is replaced.
replace_all_FirstOnly(text) ==
    [i \in 1..Len(text) |->
        IF text[i] \in DOMAIN replacements /\ \A j \in 1..(i - 1) : text[j] # text[i]
        THEN replacements[text[i]]
        ELSE text[i]]

\* for old, new in replacements.items(): text = text.replace(old, new)
replace_all(text) ==
    [i \in 1..Len(text) |->
        IF text[i] \in DOMAIN replacements THEN replacements[text[i]] ELSE text[i]]

\* re.sub(r'[^\w\s]', ' ', text)
sub_punctuation(text) ==
    [i \in 1..Len(text) |->
        IF IsWordChar(text[i]) \/ IsSpace(text[i]) THEN text[i] ELSE " "]

\* re.sub(r'\s+', ' ', text): every maximal run of whitespace becomes one space
RECURSIVE sub_spaces(_)
sub_spaces(text) ==
    IF text = <<>> THEN <<>>
    ELSE IF IsSpace(Head(text))
         THEN IF Len(text) > 1 /\ IsSpace(text[2])
              THEN sub_spaces(Tail(text))
              ELSE <<" ">> \o sub_spaces(Tail(text))
         ELSE <<Head(text)>> \o sub_spaces(Tail(text))

RECURSIVE lstrip(_)
lstrip(text) ==
    IF text # <<>> /\ IsSpace(Head(text)) THEN lstrip(Tail(text)) ELSE text

RECURSIVE rstrip(_)
rstrip(text) ==
    IF text # <<>> /\ IsSpace(text[Len(text)])
    THEN rstrip(SubSeq(text, 1, Len(text) - 1))
    ELSE text

\* str.strip()
strip(text) == rstrip(lstrip(text))

\* str.split(): the maximal runs of non-whitespace characters, in order
RECURSIVE split_from(_, _)
split_from(text, word) ==
    IF text = <<>>
    THEN IF word = <<>> THEN <<>> ELSE <<word>>
    ELSE IF IsSpace(Head(text))
         THEN IF word = <<>>
              THEN split_from(Tail(text), <<>>)
              ELSE <<word>> \o split_from(Tail(text), <<>>)
         ELSE split_from(Tail(text), Append(word, Head(text)))

split(text) == split_from(text, <<>>)

\* sub in text (substring test)
Contains(text, sub) ==
    \E i \in 0..(Len(text) - Len(sub)) : SubSeq(text, i + 1, i + Len(sub)) = sub

\* w in list
InList(w, list) == \E i \in 1..Len(list) : list[i] = w

(***************************************************************************)
(* normalize_text                                                          *)
(***************************************************************************)
normalize_text(text) ==
    IF text = <<>> THEN <<>>
    ELSE strip(sub_spaces(sub_punctuation(replace_all(lower(text)))))

(***************************************************************************)
(* Exact rationals <<n, d>>, d > 0, in lowest terms.                       *)
(***************************************************************************)
RECURSIVE GCD(_, _)
GCD(a, b) == IF b = 0 THEN a ELSE GCD(b, a % b)

Rat(n, d) == LET g == GCD(n, d) IN IF n = 0 THEN <<0, 1>> ELSE <<n \div g, d \div g>>

RAdd(x, y) == Rat(x[1] * y[2] + y[1] * x[2], x[2] * y[2])

RDiv(x, y) == Rat(x[1] * y[2], x[2] * y[1])

RLess(x, y) == x[1] * y[2] < y[1] * x[2]

RLeq(x, y) == x[1] * y[2] <= y[1] * x[2]

RMin(x, y) == IF RLess(y, x) THEN y ELSE x

RInt(k) == <<k, 1>>

(***************************************************************************)
(* calculate_relevance_score: the keyword tables.                          *)
(***************************************************************************)
color_keywords ==
    << <<"s","a","r","i">>,
       <<"k","i","r","m","i","z","i">>,
       <<"y","e","s","i","l">>,
       <<"m","a","v","i">>,
       <<"b","e","y","a","z">>,
       <<"s","i","y","a","h">>,
       <<"t","u","r","u","n","c","u">>,
       <<"m","o","r">> >>

voltage_keywords ==
    << <<"2","2","0","v">>,
       <<"2","4","v">>,
       <<"1","2","v">>,
       <<"1","1","0","v">>,
       <<"3","8","0","v">>,
       <<"2","2","0">>,
       <<"2","4">>,
       <<"1","2">>,
       <<"1","1","0">>,
       <<"3","8","0">> >>

product_type_keywords ==
    << <<"l","e","d">>,
       <<"l","e","d","i">>,
       <<"l","e","d","l","i">>,
       <<"k","o","n","t","a","k","t","o","r">>,
       <<"r","o","l","e">>,
       <<"s","e","n","s","o","r">>,
       <<"s","e","n","s","o","r">>,
       <<"b","u","t","o","n">>,
       <<"l","a","m","b","a">>,
       <<"i","s","i","k">> >>

\* The dictionary related_terms, as its (key, list) items in order.
related_terms ==
    << << <<"l","e","d">>,
          << <<"l","e","d">>, <<"l","e","d","i">>, <<"l","e","d","l","i">> >> >>,
       << <<"k","o","n","t","a","k","t","o","r">>,
          << <<"k","o","n","t","a","k","t","o","r">>,
             <<"c","o","n","t","a","c","t","o","r">> >> >>,
       << <<"r","o","l","e">>,
          << <<"r","o","l","e">>, <<"r","e","l","e">>, <<"r","e","l","a","y">> >> >>,
       << <<"s","e","n","s","o","r">>,
          << <<"s","e","n","s","o","r">>, <<"s","e","n","s","o","r">> >> >>,
       << <<"l","a","m","b","a">>,
          << <<"l","a","m","b","a">>, <<"i","s","i","k">>, <<"l","i","g","h","t">> >> >> >>

\* The literals of the scorer.
Zero == <<0, 1>>

One == <<1, 1>>

RelatedAward == <<4, 5>>

PartialAward == <<1, 2>>

ProductTypeThreshold == <<7, 10>>

OtherThreshold == <<1, 2>>

\* A local that has not been assigned yet.
Unset == <<>>

(***************************************************************************)
(* calculate_relevance_score: the classification of the query words.       *)
(***************************************************************************)
query_colors(query_words) ==
    SelectSeq(query_words, LAMBDA w : InList(w, color_keywords))

query_voltages(query_words) ==
    SelectSeq(query_words, LAMBDA w : InList(w, voltage_keywords))

query_product_types(query_words) ==
    SelectSeq(query_words, LAMBDA w : InList(w, product_type_keywords))

\* A variant whose exclusion list leaves out product_type_keywords.
query_other_ProductTypesToo(query_words) ==
    SelectSeq(query_words,
              LAMBDA w : /\ ~InList(w, color_keywords \o voltage_keywords)
                         /\ Len(w) > 1)

query_other(query_words) ==
    SelectSeq(query_words,
              LAMBDA w : /\ ~InList(w, color_keywords \o voltage_keywords
                                        \o product_type_keywords)
                         /\ Len(w) > 1)

\* all_text = f"{normalized_desc} {normalized_brand} {normalized_code}"
all_text(description, brand, code) ==
    normalize_text(description) \o <<" ">> \o normalize_text(brand)
        \o <<" ">> \o normalize_text(code)

RECURSIVE RSum(_)
RSum(awards) ==
    IF awards = <<>> THEN Zero ELSE RAdd(Head(awards), RSum(Tail(awards)))

(***************************************************************************)
(* The frame of one call of calculate_relevance_score: its locals, the     *)
(* block it is about to execute (pc) and, once it returned, its result.    *)
(***************************************************************************)
NewFrame(query_words, description, brand, code) ==
    [pc                       |-> "color",
     query_words              |-> query_words,
     all_text                 |-> all_text(description, brand, code),
     query_colors             |-> query_colors(query_words),
     query_voltages           |-> query_voltages(query_words),
     query_product_types      |-> query_product_types(query_words),
     query_other              |-> query_other(query_words),
     total_matches            |-> Zero,
     total_required           |-> Zero,
     product_type_match_ratio |-> Unset,
     other_match_ratio        |-> Unset,
     exit                     |-> "",
     ret                      |-> Unset]

\* return value, at the return statement named site
Return(f, site, value) == [f EXCEPT !.pc = "done", !.exit = site, !.ret = value]

\* Colors - if query has colors, product MUST have matching colors
color_found(f) ==
    \E i \in 1..Len(f.query_colors) : Contains(f.all_text, f.query_colors[i])

\* Variant: the colour gate without its early return.
ColorGate_NoReject(f) ==
    IF f.query_colors = <<>>
    THEN [f EXCEPT !.pc = "voltage"]
    ELSE [f EXCEPT !.total_matches = IF color_found(f) THEN RAdd(@, One) ELSE @,
                   !.total_required = RAdd(@, One),
                   !.pc = "voltage"]

ColorGate(f) ==
    IF f.query_colors = <<>>
    THEN [f EXCEPT !.pc = "voltage"]
    ELSE IF color_found(f)
         THEN [f EXCEPT !.total_matches = RAdd(@, One),
                        !.total_required = RAdd(@, One),
                        !.pc = "voltage"]
         ELSE Return([f EXCEPT !.total_required = RAdd(@, One)], "color", Zero)

\* Voltages - if query has voltages, product MUST have matching voltages
voltage_found(f) ==
    \E i \in 1..Len(f.query_voltages) : Contains(f.all_text, f.query_voltages[i])

\* Variant: the voltage gate without its early return.
VoltageGate_NoReject(f) ==
    IF f.query_voltages = <<>>
    THEN [f EXCEPT !.pc = "product_type"]
    ELSE [f EXCEPT !.total_matches = IF voltage_found(f) THEN RAdd(@, One) ELSE @,
                   !.total_required = RAdd(@, One),
                   !.pc = "product_type"]

VoltageGate(f) ==
    IF f.query_voltages = <<>>
    THEN [f EXCEPT !.pc = "product_type"]
    ELSE IF voltage_found(f)
         THEN [f EXCEPT !.total_matches = RAdd(@, One),
                        !.total_required = RAdd(@, One),
                        !.pc = "product_type"]
         ELSE Return([f EXCEPT !.total_required = RAdd(@, One)], "voltage", Zero)

\* Product types: what one query product type adds to product_type_score
\* Variant: the loop taking `ptype in related_list` for `ptype == main_term`.
found_related_AnyListed(ptype, text) ==
    \E k \in 1..Len(related_terms) :
        /\ InList(ptype, related_terms[k][2])
        /\ \E r \in 1..Len(related_terms[k][2]) :
               Contains(text, related_terms[k][2][r])

found_related(ptype, text) ==
    \E k \in 1..Len(related_terms) :
        /\ ptype = related_terms[k][1]
        /\ \E r \in 1..Len(related_terms[k][2]) :
               Contains(text, related_terms[k][2][r])

\* Variant: a related term counts as much as the term itself.
product_type_award_NoDiscount(ptype, text) ==
    IF Contains(text, ptype) \/ found_related(ptype, text) THEN One ELSE Zero

product_type_award(ptype, text) ==
    IF Contains(text, ptype) THEN One
    ELSE IF found_related(ptype, text) THEN RelatedAward
    ELSE Zero

product_type_score(f) ==
    RSum([i \in 1..Len(f.query_product_types) |->
             product_type_award(f.query_product_types[i], f.all_text)])

\* Variant: the product-type gate without its rejection.
ProductTypeGate_NoReject(f) ==
    IF f.query_product_types = <<>>
    THEN [f EXCEPT !.pc = "other"]
    ELSE LET ratio == RDiv(product_type_score(f), RInt(Len(f.query_product_types)))
         IN  [f EXCEPT !.product_type_match_ratio = ratio,
                       !.total_matches = RAdd(@, ratio),
                       !.total_required = RAdd(@, One),
                       !.pc = "other"]

ProductTypeGate(f) ==
    IF f.query_product_types = <<>>
    THEN [f EXCEPT !.pc = "other"]
    ELSE LET ratio == RDiv(product_type_score(f), RInt(Len(f.query_product_types)))
         IN  IF RLess(ratio, ProductTypeThreshold)
             THEN Return([f EXCEPT !.product_type_match_ratio = ratio], "product_type", Zero)
             ELSE [f EXCEPT !.product_type_match_ratio = ratio,
                            !.total_matches = RAdd(@, ratio),
                            !.total_required = RAdd(@, One),
                            !.pc = "other"]

\* Other general terms: what one term adds to other_matches
partial_match(term, text) ==
    LET words == split(text)
    IN  \E j \in 1..Len(words) :
            /\ Len(words[j]) > 3
            /\ Len(term) > 3
            /\ (Contains(words[j], term) \/ Contains(term, words[j]))

other_award(term, text) ==
    IF Contains(text, term) THEN One
    ELSE IF partial_match(term, text) THEN PartialAward
    ELSE Zero

other_matches(f) ==
    RSum([i \in 1..Len(f.query_other) |-> other_award(f.query_other[i], f.all_text)])

\* Variant: the other-terms gate rejecting a ratio of exactly 0.5 too.
OtherGate_RejectHalf(f) ==
    IF f.query_other = <<>>
    THEN [f EXCEPT !.pc = "final"]
    ELSE LET ratio == RDiv(other_matches(f), RInt(Len(f.query_other)))
         IN  IF RLeq(ratio, OtherThreshold)
             THEN Return([f EXCEPT !.other_match_ratio = ratio], "other", Zero)
             ELSE [f EXCEPT !.other_match_ratio = ratio,
                            !.total_matches = RAdd(@, ratio),
                            !.total_required = RAdd(@, One),
                            !.pc = "final"]

OtherGate(f) ==
    IF f.query_other = <<>>
    THEN [f EXCEPT !.pc = "final"]
    ELSE LET ratio == RDiv(other_matches(f), RInt(Len(f.query_other)))
         IN  IF RLess(ratio, OtherThreshold)
             THEN Return([f EXCEPT !.other_match_ratio = ratio], "other", Zero)
             ELSE [f EXCEPT !.other_match_ratio = ratio,
                            !.total_matches = RAdd(@, ratio),
                            !.total_required = RAdd(@, One),
                            !.pc = "final"]

\* Variant: the final score without the division by total_required.
FinalScore_NoDivide(f) ==
    IF f.total_required = Zero
    THEN Return(f, "zero", Zero)
    ELSE Return(f, "final", f.total_matches)

\* Variant: the final score divided by the number of query words.
FinalScore_PerWord(f) ==
    IF f.total_required = Zero
    THEN Return(f, "zero", Zero)
    ELSE Return(f, "final",
                RMin(RDiv(f.total_matches, RInt(Len(f.query_words))), One))

\* Calculate final score
FinalScore(f) ==
    IF f.total_required = Zero
    THEN Return(f, "zero", Zero)
    ELSE Return(f, "final", RMin(RDiv(f.total_matches, f.total_required), One))

\* The block at f.pc, executed.
StepFrame(f) ==
    CASE f.pc = "color"        -> ColorGate(f)
      [] f.pc = "voltage"      -> VoltageGate(f)
      [] f.pc = "product_type" -> ProductTypeGate(f)
      [] f.pc = "other"        -> OtherGate(f)
      [] f.pc = "final"        -> FinalScore(f)
      [] OTHER                 -> f

RECURSIVE RunFrame(_)
RunFrame(f) == IF f.pc = "done" THEN f ELSE RunFrame(StepFrame(f))

calculate_relevance_score(query_words, description, brand, code) ==
    RunFrame(NewFrame(query_words, description, brand, code)).ret

(***************************************************************************)
(* search_products: the relevance threshold, score > 0.5.                  *)
(***************************************************************************)
MinScore == <<1, 2>>

\* Variant: a score of exactly 0.5 counts as relevant.
relevant_Inclusive(score) == RLeq(MinScore, score)

relevant(score) == RLess(MinScore, score)

(***************************************************************************)
(* The state.                                                              *)
(*   products  the collection db.products, in insertion order              *)
(*   upload    the upload requests in flight, each between its delete_many *)
(*             and its insert_many: the bag of the row lists they hold     *)
(*   response  what the handler that just returned has answered            *)
(*   fetched   the documents that handler fetched with db.products.find    *)
(*   clock     the time datetime.now() reads                               *)
(*   frame     a call of calculate_relevance_score, or of normalize_text   *)
(*             run on its own, under way                                   *)
(***************************************************************************)
VARIABLES products, upload, response, fetched, clock, frame

vars == <<products, upload, response, fetched, clock, frame>>

NoUpload == EmptyBag

NoResponse == [kind |-> "none"]

\* The handler fetched nothing from the collection.
NotFetched == <<"not fetched">>

NoFrame == [pc |-> "idle"]

(***************************************************************************)
(* The scorer on its own: a call on every query of at most MaxQueryLen     *)
(* tokens and every entry, executed block by block.                        *)
(***************************************************************************)
\* sari kirmizi 24v 24 led role lamba buton sinyal lambasi ac x
TokenVocab ==
    {<<"s","a","r","i">>,
     <<"k","i","r","m","i","z","i">>,
     <<"2","4","v">>,
     <<"2","4">>,
     <<"l","e","d">>,
     <<"r","o","l","e">>,
     <<"l","a","m","b","a">>,
     <<"b","u","t","o","n">>,
     <<"s","i","n","y","a","l">>,
     <<"l","a","m","b","a","s","i">>,
     <<"a","c">>,
     <<"x">>}

TokenLists == UNION {[1..n -> TokenVocab] : n \in 0..MaxQueryLen}

\* "Sari LEDli lamba, 24V"  "Kirmizi lamba, 220V AC"  "Acil stop butonu"
\* "Relay, 240V"  "Isik sinyali"  "Sinyal lambasi"  "" (with Turkish letters)
Descriptions ==
    {<<"S","a","r","U0131"," ","L","E","D","l","i"," ","l","a","m","b","a",","," ","2","4","V">>,
     <<"K","U0131","r","m","U0131","z","U0131"," ","l","a","m","b","a",","," ","2","2","0","V"," ","A","C">>,
     <<"A","c","i","l"," ","s","t","o","p"," ","b","u","t","o","n","u">>,
     <<"R","e","l","a","y",","," ","2","4","0","V">>,
     <<"I","U015F","U0131","k"," ","s","i","n","y","a","l","i">>,
     <<"S","i","n","y","a","l"," ","l","a","m","b","a","s","U0131">>,
     <<>>}

\* "ABB"  "Sari A.S."
Brands == {<<"A","B","B">>, <<"S","a","r","U0131"," ","A",".","U015E",".">>}

\* "X1"  "LED-24V"
Codes == {<<"X","1">>, <<"L","E","D","-","2","4","V">>}

InitScore ==
    /\ products = <<>>
    /\ upload = NoUpload
    /\ response = NoResponse
    /\ fetched = NotFetched
    /\ clock = 0
    /\ \E q \in TokenLists, d \in Descriptions, b \in Brands, c \in Codes :
           frame = NewFrame(q, d, b, c)

ColorStep ==
    /\ frame.pc = "color"
    /\ frame' = ColorGate(frame)
    /\ UNCHANGED <<products, upload, response, fetched, clock>>

VoltageStep ==
    /\ frame.pc = "voltage"
    /\ frame' = VoltageGate(frame)
    /\ UNCHANGED <<products, upload, response, fetched, clock>>

ProductTypeStep ==
    /\ frame.pc = "product_type"
    /\ frame' = ProductTypeGate(frame)
    /\ UNCHANGED <<products, upload, response, fetched, clock>>

OtherStep ==
    /\ frame.pc = "other"
    /\ frame' = OtherGate(frame)
    /\ UNCHANGED <<products, upload, response, fetched, clock>>

FinalStep ==
    /\ frame.pc = "final"
    /\ frame' = FinalScore(frame)
    /\ UNCHANGED <<products, upload, response, fetched, clock>>

NextScore ==
    \/ ColorStep
    \/ VoltageStep
    \/ ProductTypeStep
    \/ OtherStep
    \/ FinalStep

SpecScore == InitScore /\ [][NextScore]_vars

(***************************************************************************)
(* Properties of the scorer (under SpecScore).                             *)
(***************************************************************************)
Returned == frame.pc = "done"

\* The tokens of a query that are entries of a keyword table, in order.
TokensIn(query_words, table) == SelectSeq(query_words, LAMBDA w : InList(w, table))

\* Some token of toks is a substring of text.
AnyIn(toks, text) == \E i \in 1..Len(toks) : Contains(text, toks[i])

\* C1: for every query token list and every description, brand and code,
\* calculate_relevance_score returns a value in the closed interval [0, 1].
C1_ScoreInUnitInterval ==
    Returned => RLeq(Zero, frame.ret) /\ RLeq(frame.ret, One)

\* A call that returned a score strictly between 0 and 1.
C1_Witness ==
    Returned /\ RLess(Zero, frame.ret) /\ RLess(frame.ret, One)

\* The query has a colour token and none of its colour tokens is a
\* substring of the combined text.
ColorMiss(f) ==
    LET cs == TokensIn(f.query_words, color_keywords)
    IN  cs # <<>> /\ ~AnyIn(cs, f.all_text)

\* C2: if the query contains a colour token and none of its colour tokens
\* occurs as a substring of the combined text, the score is exactly 0
\* whatever the other tokens match, so the entry is never relevant to
\* search_products.
C2_ColorGateRejects ==
    (Returned /\ ColorMiss(frame)) => frame.ret = Zero /\ ~relevant(frame.ret)

\* A colour miss on an entry that matches another token of the query.
C2_Witness ==
    /\ Returned
    /\ ColorMiss(frame)
    /\ \E i \in 1..Len(frame.query_words) :
           /\ ~InList(frame.query_words[i], color_keywords)
           /\ Contains(frame.all_text, frame.query_words[i])

\* The query has a voltage token and none of its voltage tokens is a
\* substring of the combined text.
VoltageMiss(f) ==
    LET vs == TokensIn(f.query_words, voltage_keywords)
    IN  vs # <<>> /\ ~AnyIn(vs, f.all_text)

\* C3: if the query contains a voltage token and none of its voltage tokens
\* occurs as a substring of the combined text, the score is exactly 0
\* whatever the other tokens match, so the entry is never relevant to
\* search_products.
C3_VoltageGateRejects ==
    (Returned /\ VoltageMiss(frame)) => frame.ret = Zero /\ ~relevant(frame.ret)

\* A voltage miss on an entry that matches another token of the query.
C3_Witness ==
    /\ Returned
    /\ VoltageMiss(frame)
    /\ \E i \in 1..Len(frame.query_words) :
           /\ ~InList(frame.query_words[i], voltage_keywords)
           /\ Contains(frame.all_text, frame.query_words[i])

\* The award of one product-type token as the specification words it.
C4_Award(tok, text) ==
    IF Contains(text, tok) THEN <<1, 1>>
    ELSE IF \E k \in 1..Len(related_terms) :
                /\ related_terms[k][1] = tok
                /\ AnyIn(related_terms[k][2], text)
         THEN <<4, 5>>
         ELSE <<0, 1>>

C4_Ratio(f) ==
    RDiv(RSum([i \in 1..Len(f.query_product_types) |->
                  C4_Award(f.query_product_types[i], f.all_text)]),
         RInt(Len(f.query_product_types)))

\* C4: in the product-type gate each product-type token is awarded 1.0 if it
\* is a substring of the combined text, otherwise 0.8 if it is a key of the
\* related-terms table and one of its related terms is a substring, otherwise
\* 0; a ratio below 0.7 makes the score 0, otherwise the ratio is added to
\* the matches and 1.0 to the required total.
C4_ProductTypeGate ==
    [][(frame.pc = "product_type" /\ frame.query_product_types # <<>>) =>
          IF RLess(C4_Ratio(frame), <<7, 10>>)
          THEN frame'.pc = "done" /\ frame'.ret = Zero
          ELSE /\ frame'.pc # "done"
               /\ frame'.total_matches = RAdd(frame.total_matches, C4_Ratio(frame))
               /\ frame'.total_required = RAdd(frame.total_required, One)]_vars

\* The gate passed with one token found literally and one through a related
\* term: ratio 0.9.
C4_Witness ==
    /\ frame.pc = "other"
    /\ frame.product_type_match_ratio = <<9, 10>>

\* The award of one 'other' token as the specification words it.
C5_Award(tok, text) ==
    LET words == split(text)
    IN  IF InList(tok, words) THEN <<1, 1>>
        ELSE IF /\ Len(tok) > 3
                /\ \E j \in 1..Len(words) :
                       /\ Len(words[j]) > 3
                       /\ (Contains(words[j], tok) \/ Contains(tok, words[j]))
             THEN <<1, 2>>
             ELSE <<0, 1>>

\* C5: in the other-terms gate each 'other' token is awarded 1.0 exactly when
\* it is an exact element of the words of the combined text; otherwise 0.5
\* when the token has length > 3 and some word of length > 3 contains it or
\* is contained in it; otherwise 0.
C5_OtherAwardExactWord ==
    frame.other_match_ratio # Unset =>
        /\ \A i \in 1..Len(frame.query_other) :
               other_award(frame.query_other[i], frame.all_text)
                   = C5_Award(frame.query_other[i], frame.all_text)
        /\ frame.other_match_ratio
               = RDiv(RSum([i \in 1..Len(frame.query_other) |->
                               C5_Award(frame.query_other[i], frame.all_text)]),
                      RInt(Len(frame.query_other)))

\* C6: if the query has an 'other' token and the sum of the other-term awards
\* divided by the number of 'other' tokens is below 0.5, the score is 0;
\* otherwise that ratio is added to the matches and 1.0 to the required total.
C6_OtherGate ==
    [][(frame.pc = "other" /\ frame.query_other # <<>>) =>
          LET ratio == RDiv(other_matches(frame), RInt(Len(frame.query_other)))
          IN  IF RLess(ratio, <<1, 2>>)
              THEN frame'.pc = "done" /\ frame'.ret = Zero
              ELSE /\ frame'.pc # "done"
                   /\ frame'.other_match_ratio = ratio
                   /\ frame'.total_matches = RAdd(frame.total_matches, ratio)
                   /\ frame'.total_required = RAdd(frame.total_required, One)]_vars

\* The gate passed with a ratio of exactly 0.5, after another group had
\* contributed.
C6_Witness ==
    /\ frame.pc = "final"
    /\ frame.other_match_ratio = <<1, 2>>
    /\ frame.total_required = <<2, 1>>

\* What a non-empty group contributes when its gate does not reject.
C7_Groups(f) ==
    (IF f.query_colors # <<>> THEN <<One>> ELSE <<>>)
    \o (IF f.query_voltages # <<>> THEN <<One>> ELSE <<>>)
    \o (IF f.query_product_types # <<>> THEN <<f.product_type_match_ratio>> ELSE <<>>)
    \o (IF f.query_other # <<>> THEN <<f.other_match_ratio>> ELSE <<>>)

\* C7: when no gate rejects, the score is the sum of the contributions of the
\* non-empty query groups (1.0 for colours, 1.0 for voltages, the product-type
\* ratio, the other-terms ratio) divided by the number of non-empty groups,
\* capped at 1.0.
C7_FinalScore ==
    (Returned /\ frame.exit \notin {"color", "voltage", "product_type", "other"}
              /\ C7_Groups(frame) # <<>>) =>
        frame.ret = RMin(RDiv(RSum(C7_Groups(frame)), RInt(Len(C7_Groups(frame)))), One)

\* Two groups passed, the colours with 1.0 and another with a partial ratio.
C7_Witness ==
    /\ Returned
    /\ frame.exit = "final"
    /\ frame.query_colors # <<>>
    /\ Len(C7_Groups(frame)) >= 2
    /\ RLess(frame.ret, One)

\* w is, letter for letter, an entry of the keyword table.
IsEntry(w, table) == \E k \in 1..Len(table) : table[k] = w

\* The number of the four groups of the call that hold the token w.
GroupsHolding(f, w) ==
    Cardinality({g \in {"query_colors", "query_voltages",
                        "query_product_types", "query_other"} :
                     \E k \in 1..Len(f[g]) : f[g][k] = w})

\* C21: the classifier partitions the query tokens: every token of length
\* greater than 1 is in exactly one of the groups colours, voltages, product
\* types and other; it is in a keyword group exactly when it equals an entry
\* of that group's table, and in 'other' exactly when it equals no entry of
\* the three tables; no token is counted twice.
C21_GroupsPartitionTokens ==
    /\ \A i \in 1..Len(frame.query_words) :
           LET w == frame.query_words[i]
           IN  Len(w) > 1 =>
                 /\ GroupsHolding(frame, w) = 1
                 /\ IsEntry(w, frame.query_colors) <=> IsEntry(w, color_keywords)
                 /\ IsEntry(w, frame.query_voltages) <=> IsEntry(w, voltage_keywords)
                 /\ IsEntry(w, frame.query_product_types)
                        <=> IsEntry(w, product_type_keywords)
                 /\ IsEntry(w, frame.query_other)
                        <=> ~(\/ IsEntry(w, color_keywords)
                             \/ IsEntry(w, voltage_keywords)
                             \/ IsEntry(w, product_type_keywords))
    /\ Len(frame.query_colors) + Len(frame.query_voltages)
         + Len(frame.query_product_types) + Len(frame.query_other)
       = Cardinality({i \in 1..Len(frame.query_words) :
                          Len(frame.query_words[i]) > 1})

\* A query with a product-type token and a token that only contains a
\* keyword, which went to 'other'.
C21_Witness ==
    /\ Returned
    /\ Len(frame.query_product_types) = 1
    /\ Len(frame.query_other) = 1
    /\ \E k \in 1..Len(product_type_keywords) :
           /\ Contains(frame.query_other[1], product_type_keywords[k])
           /\ frame.query_other[1] # product_type_keywords[k]

(***************************************************************************)
(* The spreadsheet an upload reads: its rows, each with the four cells      *)
(* marka, kod, aciklama, fiyat.  NaN is an empty cell (pd.isna).  The rows  *)
(* are rows of the test data, one of them with its description missing.     *)
(***************************************************************************)
NaN == <<"NaN">>

RowSiemens ==
    [marka    |-> <<"S","i","e","m","e","n","s">>,
     kod      |-> <<"S","I","E","-","L","E","D","-","2","4","V","-","Y">>,
     aciklama |-> <<"S","i","n","y","a","l"," ","l","a","m","b","a","s","U0131",","," ",
                    "p","l","a","s","t","i","k",","," ","s","a","r","U0131",","," ",
                    "L","E","D","l","i",","," ","2","4","V"," ","D","C">>,
     fiyat    |-> <<"1","2","5",".","5","0"," ","T","L">>]

RowWeidmuller ==
    [marka    |-> <<"W","e","i","d","m","u","l","l","e","r">>,
     kod      |-> <<"W","E","I","-","L","A","M","P","-","R","-","2","2","0","V">>,
     aciklama |-> <<"K","U0131","r","m","U0131","z","U0131"," ","l","a","m","b","a",","," ",
                    "h","a","l","o","j","e","n",","," ","2","2","0","V"," ","A","C">>,
     fiyat    |-> <<"8","5",".","0","0"," ","T","L">>]

RowOmron ==
    [marka    |-> <<"O","m","r","o","n">>,
     kod      |-> <<"O","M","R","-","L","A","M","P","-","Y","-","2","4","V">>,
     aciklama |-> <<"S","a","r","U0131"," ","l","a","m","b","a",","," ",
                    "a","k","k","o","r",","," ","2","4","V"," ","D","C"," ">>,
     fiyat    |-> <<"7","8",".","4","5"," ","T","L">>]

RowPilz ==
    [marka    |-> <<"P","i","l","z">>,
     kod      |-> <<"P","I","L","-","E","S","T","O","P","-","R">>,
     aciklama |-> <<"A","c","i","l"," ","s","t","o","p"," ","b","u","t","o","n","u",","," ",
                    "m","a","n","t","a","r"," ","k","a","f","a",","," ",
                    "k","U0131","r","m","U0131","z","U0131">>,
     fiyat    |-> <<"1","8","0",".","9","0"," ","T","L">>]

RowTurck ==
    [marka    |-> <<"T","u","r","c","k">>,
     kod      |-> <<"T","U","R","-","C","N","T","-","2","2","0","V">>,
     aciklama |-> NaN,
     fiyat    |-> <<"4","5","0",".","7","5"," ","T","L">>]

RowTypes == {RowSiemens, RowWeidmuller, RowOmron, RowPilz, RowTurck}

\* The sheet the files are cut from.
Sheet == <<RowWeidmuller, RowTurck, RowOmron, RowSiemens, RowPilz>>

\* An uploaded file: whether upload_excel accepts it before it touches the
\* store (an Excel file name, readable, with the four columns), the number
\* of its columns, and its rows, at most MaxRows consecutive rows of the
\* sheet.  A file of four columns that is not accepted has another kind of
\* name or cannot be read.
Files ==
    {[ok |-> TRUE, columns |-> 4, rows |-> SubSeq(Sheet, w[1], w[2])] :
        w \in {w \in (1..Len(Sheet)) \X (0..Len(Sheet)) :
                  w[1] - 1 <= w[2] /\ w[2] - w[1] < MaxRows}}
    \cup {[ok |-> FALSE, columns |-> n, rows |-> <<>>] : n \in {3, 4, 5}}

\* "sari led"  "kirmizi lamba"  "lambasi 24V"  "lambasi"  "SARI"
\* "lamba halojen"  "  ,."  (with Turkish letters), "sari led" in ASCII, "a"
\* and the empty query
RawQueries ==
    {<<"s","a","r","U0131"," ","l","e","d">>,
     <<"k","U0131","r","m","U0131","z","U0131"," ","l","a","m","b","a">>,
     <<"l","a","m","b","a","s","U0131"," ","2","4","V">>,
     <<"l","a","m","b","a","s","U0131">>,
     <<"S","A","R","I">>,
     <<"l","a","m","b","a"," ","h","a","l","o","j","e","n">>,
     <<" "," ",",",".">>,
     <<"s","a","r","i"," ","l","e","d">>,
     <<"a">>,
     <<>>}

(***************************************************************************)
(* upload_excel                                                            *)
(***************************************************************************)
\* Variant: the description is not looked at.
row_incomplete_DescriptionIgnored(row) ==
    row.marka = NaN \/ row.kod = NaN \/ row.fiyat = NaN

\* pd.isna on any of the four cells of a row
row_incomplete(row) ==
    row.marka = NaN \/ row.kod = NaN \/ row.aciklama = NaN \/ row.fiyat = NaN

\* Variant: the normalized description is only lowercased.
make_product_LowerOnly(row, upload_date, n) ==
    [id                  |-> <<upload_date, n>>,
     marka               |-> strip(row.marka),
     kod                 |-> strip(row.kod),
     aciklama            |-> strip(row.aciklama),
     fiyat               |-> strip(row.fiyat),
     normalized_aciklama |-> lower(row.aciklama),
     upload_date         |-> upload_date]

\* The product made from a row.  The id is a fresh uuid4: no two products
\* share one, here the upload date and the position among the products made.
make_product(row, upload_date, n) ==
    [id                  |-> <<upload_date, n>>,
     marka               |-> strip(row.marka),
     kod                 |-> strip(row.kod),
     aciklama            |-> strip(row.aciklama),
     fiyat               |-> strip(row.fiyat),
     normalized_aciklama |-> normalize_text(row.aciklama),
     upload_date         |-> upload_date]

\* for index, row in df.iterrows(): the products list
RECURSIVE process_rows(_, _, _)
process_rows(rows, upload_date, made) ==
    IF rows = <<>> THEN made
    ELSE IF row_incomplete(Head(rows))
         THEN process_rows(Tail(rows), upload_date, made)
         ELSE process_rows(Tail(rows), upload_date,
                           Append(made, make_product(Head(rows), upload_date,
                                                     Len(made) + 1)))

\* Variant: only the first document is deleted.
delete_many_One(collection) ==
    IF collection = <<>> THEN <<>> ELSE Tail(collection)

\* db.products.delete_many({}): the collection afterwards.
delete_many(collection) == <<>>

\* The status of the answer to a file that is not accepted: 400 from the
\* checks of the name, of the content and of the columns; 500 when the file
\* has more than four columns, for `df.columns = [...]` with four names then
\* raises a ValueError that `except Exception` turns into a 500.
rejection_status(file) == IF file.columns > 4 THEN 500 ELSE 400

\* A file that is not accepted: an error response, the store untouched.
UploadReject ==
    /\ \E file \in Files :
           /\ ~file.ok
           /\ response' = [kind |-> "error", status |-> rejection_status(file)]
    /\ fetched' = NotFetched
    /\ UNCHANGED <<products, upload, clock, frame>>

\* The file is accepted; await db.products.delete_many({}).  Requests are
\* served concurrently: others may be between their awaits.
UploadDelete ==
    /\ clock + BagCardinality(upload) < MaxUploads
    /\ \E file \in Files :
           /\ file.ok
           /\ upload' = upload (+) SetToBag({file.rows})
    /\ products' = delete_many(products)
    /\ response' = NoResponse
    /\ fetched' = NotFetched
    /\ UNCHANGED <<clock, frame>>

\* The rows processed, await db.products.insert_many(products) when there
\* are any, and the UploadResponse.
UploadInsert ==
    /\ clock' = clock + 1
    /\ \E rows \in BagToSet(upload) :
           LET made == process_rows(rows, clock', <<>>)
           IN  /\ products' = products \o made
               /\ response' = [kind           |-> "upload",
                               products_count |-> Len(made),
                               upload_date    |-> clock']
               /\ upload' = upload (-) SetToBag({rows})
    /\ fetched' = NotFetched
    /\ UNCHANGED frame

(***************************************************************************)
(* search_products                                                         *)
(***************************************************************************)
\* Variant: the query is split as written, not normalized.
tokenize_Raw(q) == SelectSeq(split(q), LAMBDA word : Len(word) > 1)

\* A variant with the filter the code had before ("Changed from > 2 to > 1").
split_query_LongerThanTwo(normalized_query) ==
    SelectSeq(split(normalized_query), LAMBDA word : Len(word) > 2)

\* A variant without the length filter.
split_query_KeepAll(normalized_query) == split(normalized_query)

\* query_words = [word for word in normalized_query.split() if len(word) > 1]
split_query(normalized_query) ==
    SelectSeq(split(normalized_query), LAMBDA word : Len(word) > 1)

\* Normalize and tokenize query
tokenize(q) == split_query(normalize_text(q))

\* Variant: the scorer remembers the best score of the search before.
score_product_Remembering(query_words, product_data) ==
    IF response.kind = "search" /\ response.results # <<>>
    THEN response.results[1].relevance_score
    ELSE calculate_relevance_score(query_words, product_data.aciklama,
                                   product_data.marka, product_data.kod)

\* The calls of calculate_relevance_score the scoring loop makes: the tokens
\* of a query against the description, brand and code of an entry made from
\* a row of the sheet.
ScoreInputs ==
    {<<tokenize(q), strip(row.aciklama), strip(row.marka), strip(row.kod)>> :
        q \in RawQueries, row \in {r \in RowTypes : ~row_incomplete(r)}}

\* Their values, each computed once: the function has no state, so a call
\* repeated gives what the first one gave.
ScoreTable ==
    [x \in ScoreInputs |-> calculate_relevance_score(x[1], x[2], x[3], x[4])] @@ <<>>

score_product(query_words, product_data) ==
    LET x == <<query_words, product_data.aciklama, product_data.marka,
               product_data.kod>>
    IN  IF x \in DOMAIN ScoreTable
        THEN ScoreTable[x]
        ELSE calculate_relevance_score(query_words, product_data.aciklama,
                                       product_data.marka, product_data.kod)

\* Variant: every scored entry is a result, whatever its score.
scored_results_NoThreshold(query_words, found) ==
    [i \in 1..Len(found) |->
        [product         |-> found[i],
         relevance_score |-> score_product(query_words, found[i])]]

\* The loop over the products found: the results above the threshold
scored_results(query_words, found) ==
    SelectSeq([i \in 1..Len(found) |->
                  [product         |-> found[i],
                   relevance_score |-> score_product(query_words, found[i])]],
              LAMBDA r : relevant(r.relevance_score))

\* Variant: an element goes before the elements of equal score.
insert_sorted_BeforeEqual(sorted, x) ==
    LET k == Cardinality({i \in 1..Len(sorted) :
                             RLess(x.relevance_score, sorted[i].relevance_score)})
    IN  SubSeq(sorted, 1, k) \o <<x>> \o SubSeq(sorted, k + 1, Len(sorted))

\* list.sort(key=relevance_score, reverse=True): a stable sort, so an element
\* goes after every element whose score is at least its own.
insert_sorted(sorted, x) ==
    LET k == Cardinality({i \in 1..Len(sorted) :
                             RLeq(x.relevance_score, sorted[i].relevance_score)})
    IN  SubSeq(sorted, 1, k) \o <<x>> \o SubSeq(sorted, k + 1, Len(sorted))

RECURSIVE sort_from(_, _)
sort_from(sorted, rest) ==
    IF rest = <<>> THEN sorted
    ELSE sort_from(insert_sorted(sorted, Head(rest)), Tail(rest))

\* Variant: the results left in the order they were scored in.
sort_by_relevance_Unsorted(results) == results

sort_by_relevance(results) == sort_from(<<>>, results)

SearchResponse(results, q) ==
    [kind        |-> "search",
     results     |-> results,
     total_count |-> Len(results),
     query       |-> q]

\* q: str = Query(..., min_length=1)
min_length == 1

\* Variant: no early return, the collection is fetched for every query.
search_products_NoEarlyReturn(q, collection) ==
    [response |-> SearchResponse(
                      sort_by_relevance(scored_results(tokenize(q), collection)), q),
     fetched  |-> collection]

\* The handler on a query the endpoint has admitted, against the collection
\* as its find would read it: the response, and what the find fetched.
search_products(q, collection) ==
    LET query_words == tokenize(q)
    IN  IF query_words = <<>>
        THEN [response |-> SearchResponse(<<>>, q), fetched |-> NotFetched]
        ELSE [response |-> SearchResponse(
                               sort_by_relevance(
                                   scored_results(query_words, collection)), q),
              fetched  |-> collection]

\* GET /api/search?q=...: a query shorter than min_length is answered 422
\* by the validation of the parameter, the rejected input in the detail, and
\* the handler does not run.
search_endpoint(q, collection) ==
    IF Len(q) < min_length
    THEN [response |-> [kind |-> "error", status |-> 422, query |-> q],
          fetched  |-> NotFetched]
    ELSE search_products(q, collection)

Search ==
    /\ \E q \in RawQueries :
           LET answer == search_endpoint(q, products)
           IN  /\ response' = answer.response
               /\ fetched' = answer.fetched
    /\ UNCHANGED <<products, upload, clock, frame>>

(***************************************************************************)
(* get_products_count, clear_products                                      *)
(***************************************************************************)
Count ==
    /\ response' = [kind |-> "count", count |-> Len(products)]
    /\ fetched' = NotFetched
    /\ UNCHANGED <<products, upload, clock, frame>>

Clear ==
    /\ products' = delete_many(products)
    /\ response' = [kind          |-> "clear",
                    deleted_count |-> Len(products) - Len(products')]
    /\ fetched' = NotFetched
    /\ UNCHANGED <<upload, clock, frame>>

(***************************************************************************)
(* The service.                                                            *)
(***************************************************************************)
Init ==
    /\ products = <<>>
    /\ upload = NoUpload
    /\ response = NoResponse
    /\ fetched = NotFetched
    /\ clock = 0
    /\ frame = NoFrame

Next ==
    \/ UploadReject
    \/ UploadDelete
    \/ UploadInsert
    \/ Search
    \/ Count
    \/ Clear

Spec == Init /\ [][Next]_vars

(***************************************************************************)
(* Properties of search_products (under Spec).                             *)
(***************************************************************************)
Searched == response.kind = "search"

\* The score of the i-th entry of the catalog for the query answered.
ScoreOf(i) ==
    calculate_relevance_score(tokenize(response.query), products[i].aciklama,
                              products[i].marka, products[i].kod)

\* The place in the catalog of the entry the j-th result holds.
PlaceOf(j) ==
    CHOOSE i \in 1..Len(products) : products[i].id = response.results[j].product.id

C9_ResultsSortedDescending ==
    Searched =>
        \A j \in 1..(Len(response.results) - 1) :
            RLeq(response.results[j + 1].relevance_score,
                 response.results[j].relevance_score)

\* Two results of different scores, the better one later in the catalog.
C9_Witness ==
    /\ Searched
    /\ Len(response.results) >= 2
    /\ RLess(response.results[2].relevance_score, response.results[1].relevance_score)
    /\ PlaceOf(1) > PlaceOf(2)

\* C10: two returned entries of equal score appear in the result list in the
\* same relative order as in the catalog.
C10_TiesKeepCatalogOrder ==
    Searched =>
        \A j, k \in 1..Len(response.results) :
            (/\ j < k
             /\ response.results[j].relevance_score = response.results[k].relevance_score)
            => PlaceOf(j) < PlaceOf(k)

\* Two results of equal score.
C10_Witness ==
    /\ Searched
    /\ \E j, k \in 1..Len(response.results) :
           /\ j < k
           /\ response.results[j].relevance_score = response.results[k].relevance_score

\* A search request has been answered, by the handler or by the validation
\* of its parameter.
SearchAnswered ==
    \/ response.kind = "search"
    \/ response.kind = "error" /\ response.status = 422

\* The answer to a degenerate query: no error, no result, nothing fetched.
EmptyAnswer ==
    /\ response.kind = "search"
    /\ response.results = <<>>
    /\ response.total_count = 0
    /\ fetched = NotFetched

\* C11 as stated: a query that yields no token after normalization and length
\* filtering (empty, whitespace-only, punctuation-only, or only
\* single-character words) is answered with an empty result list,
\* total_count 0 and no error, and no catalog entry is read or scored.
C11_DegenerateQueryAnsweredEmpty ==
    (SearchAnswered /\ tokenize(response.query) = <<>>) => EmptyAnswer

\* C11 amended: a query of at least min_length characters that yields no
\* token is answered with an empty result list, total_count 0 and no error,
\* and no catalog entry is read or scored; the empty query is answered 422.
C11_NonEmptyDegenerateQueryAnsweredEmpty ==
    /\ (SearchAnswered /\ tokenize(response.query) = <<>>
           /\ Len(response.query) >= min_length) => EmptyAnswer
    /\ (SearchAnswered /\ Len(response.query) < min_length) =>
           response.kind = "error" /\ fetched = NotFetched

\* A query of single-character words answered over a catalog with entries.
C11_Witness ==
    /\ response.kind = "search"
    /\ response.query # <<>>
    /\ split(normalize_text(response.query)) # <<>>
    /\ tokenize(response.query) = <<>>
    /\ products # <<>>

(***************************************************************************)
(* Properties of the catalog (under Spec).                                 *)
(***************************************************************************)
\* C14: in every reachable state of the store, every catalog entry satisfies
\* normalized_aciklama = normalize_text(aciklama): the normalized description
\* stored at ingestion is what the scorer computes from the stored
\* description at query time.
C14_NormalizedDescriptionStored ==
    \A i \in 1..Len(products) :
        products[i].normalized_aciklama = normalize_text(products[i].aciklama)

\* An entry whose description was stored stripped while the normalized one
\* was computed from the cell as read.
C14_Witness ==
    \E i \in 1..Len(products), row \in RowTypes :
        /\ ~row_incomplete(row)
        /\ strip(row.aciklama) # row.aciklama
        /\ products[i].aciklama = strip(row.aciklama)
        /\ products[i].normalized_aciklama = normalize_text(row.aciklama)

\* The rows of a sheet in which all four cells are present, in row order.
CompleteRows(rows) ==
    SelectSeq(rows, LAMBDA r : r.marka # NaN /\ r.kod # NaN
                               /\ r.aciklama # NaN /\ r.fiyat # NaN)

\* The entries are exactly the complete rows of the sheet, in row order.
IsCatalogOf(entries, rows) ==
    /\ Len(entries) = Len(CompleteRows(rows))
    /\ \A i \in 1..Len(entries) :
           /\ entries[i].marka = strip(CompleteRows(rows)[i].marka)
           /\ entries[i].kod = strip(CompleteRows(rows)[i].kod)
           /\ entries[i].aciklama = strip(CompleteRows(rows)[i].aciklama)
           /\ entries[i].fiyat = strip(CompleteRows(rows)[i].fiyat)

\* The row lists of the files upload_excel accepts.
AcceptedSheets == {file.rows : file \in {f \in Files : f.ok}}

\* C15: a new upload replaces the entire catalog atomically: a search that
\* runs while an upload is in progress computes its results from either the
\* complete previous catalog or the complete new catalog, never from an empty
\* or partially replaced one.  So the catalog a search reads once an upload
\* has made its first write is the catalog before that write or the catalog
\* of the uploaded sheet.
C15_UploadReplacesAtomically ==
    [][\A rows \in AcceptedSheets :
          upload' = upload (+) SetToBag({rows}) =>
              products' = products \/ IsCatalogOf(products', rows)]_vars

\* C16: once every upload has completed, uploads that overlapped included,
\* the catalog consists of the complete rows of one single upload: entries
\* of two different uploads (different upload_date) never coexist.
C16_CatalogOfOneUpload ==
    upload = EmptyBag =>
        \A i, j \in 1..Len(products) :
            products[i].upload_date = products[j].upload_date

\* C17: a successful upload stores exactly the rows in which all four fields
\* are present, in row order, and drops every row with a missing field
\* without reporting an error; the returned products_count is the number of
\* stored rows, and get_products_count returns the same number when no other
\* write intervenes.
C17_UploadStoresCompleteRows ==
    [][/\ \A rows \in BagToSet(upload) :
             upload' = upload (-) SetToBag({rows}) =>
                 /\ response'.kind = "upload"
                 /\ SubSeq(products', 1, Len(products)) = products
                 /\ IsCatalogOf(SubSeq(products', Len(products) + 1, Len(products')),
                                rows)
                 /\ response'.products_count = Len(products') - Len(products)
       /\ (/\ response.kind = "upload"
           /\ \A i \in 1..Len(products) :
                  products[i].upload_date = response.upload_date
           /\ response'.kind = "count") =>
              response'.count = response.products_count]_vars

\* An upload stored the two complete rows of a sheet around a row it
\* dropped: they are not neighbours in the sheet the files are cut from.
C17_Witness ==
    /\ response.kind = "upload"
    /\ response.products_count = 2
    /\ Len(products) = 2
    /\ IsCatalogOf(products, <<RowWeidmuller, RowTurck, RowOmron>>)
    /\ products[1].upload_date = products[2].upload_date

\* The arguments of the call that scored an entry, the query tokens aside.
ScoreArgs(entry) == <<entry.aciklama, entry.marka, entry.kod>>

ResultsOf(answer) == IF answer.kind = "search" THEN answer.results ELSE <<>>

\* C19: two queries whose normalized forms are equal (a query written with
\* Turkish letters and its ASCII transliteration) return, against the same
\* catalog, the same entries with the same scores in the same order.
C19_EqualNormalFormsEqualResults ==
    SearchAnswered =>
        \A q \in RawQueries :
            normalize_text(q) = normalize_text(response.query) =>
                ResultsOf(search_endpoint(q, products).response)
                    = ResultsOf(response)

\* A search that returned entries, and another way to write its query.
C19_Witness ==
    /\ Searched
    /\ response.results # <<>>
    /\ \E q \in RawQueries :
           /\ q # response.query
           /\ normalize_text(q) = normalize_text(response.query)

\* C20: after clear_products completes, get_products_count returns 0 and
\* every search returns an empty result list, until the next upload inserts
\* entries.  So a clear leaves the catalog empty, an empty catalog gets
\* entries only by the insert of an upload, and as long as it is empty every
\* count is 0 and every search returns nothing.
C20_EmptyFromClearToNextInsert ==
    [][/\ response'.kind = "clear" => products' = <<>>
       /\ (products = <<>> /\ products' # <<>>) =>
              /\ response'.kind = "upload"
              /\ \E rows \in BagToSet(upload) :
                     upload' = upload (-) SetToBag({rows})
       /\ (products = <<>> /\ response'.kind = "count") => response'.count = 0
       /\ (products = <<>> /\ SearchAnswered') =>
              /\ ResultsOf(response') = <<>>
              /\ response'.kind = "search" => response'.total_count = 0]_vars

\* A clear that deleted entries while an upload was between its delete and
\* its insert.
C20_Witness ==
    /\ response.kind = "clear"
    /\ response.deleted_count > 0
    /\ products = <<>>
    /\ upload # EmptyBag

(***************************************************************************)
(* normalize_text on its own: a call on every text of at most MaxTextLen   *)
(* characters of TextChars, executed statement by statement.               *)
(***************************************************************************)
\* a  Z  C-cedilla  capital dotted I  n-tilde  2  ,  space  tab  _
TextChars == {"a", "Z", "U00C7", "U0130", "U00F1", "2", ",", " ", "\t", "_"}

Texts == UNION {[1..n -> TextChars] : n \in 0..MaxTextLen}

NewCall(text) == [pc |-> "lower", input |-> text, text |-> text, ret |-> Unset]

InitNormalize ==
    /\ products = <<>>
    /\ upload = NoUpload
    /\ response = NoResponse
    /\ fetched = NotFetched
    /\ clock = 0
    /\ \E text \in Texts : frame = NewCall(text)

\* if not text: return ""  /  text = text.lower()
LowerStep ==
    /\ frame.pc = "lower"
    /\ frame' = IF frame.text = <<>>
                THEN [frame EXCEPT !.pc = "done", !.ret = <<>>]
                ELSE [frame EXCEPT !.pc = "replace", !.text = lower(frame.text)]
    /\ UNCHANGED <<products, upload, response, fetched, clock>>

\* for old, new in replacements.items(): text = text.replace(old, new)
ReplaceStep ==
    /\ frame.pc = "replace"
    /\ frame' = [frame EXCEPT !.pc = "punctuation", !.text = replace_all(frame.text)]
    /\ UNCHANGED <<products, upload, response, fetched, clock>>

\* text = re.sub(r'[^\w\s]', ' ', text)
PunctuationStep ==
    /\ frame.pc = "punctuation"
    /\ frame' = [frame EXCEPT !.pc = "spaces", !.text = sub_punctuation(frame.text)]
    /\ UNCHANGED <<products, upload, response, fetched, clock>>

\* text = re.sub(r'\s+', ' ', text)
SpacesStep ==
    /\ frame.pc = "spaces"
    /\ frame' = [frame EXCEPT !.pc = "strip", !.text = sub_spaces(frame.text)]
    /\ UNCHANGED <<products, upload, response, fetched, clock>>

\* return text.strip()
StripStep ==
    /\ frame.pc = "strip"
    /\ frame' = [frame EXCEPT !.pc = "done", !.ret = strip(frame.text)]
    /\ UNCHANGED <<products, upload, response, fetched, clock>>

NextNormalize ==
    \/ LowerStep
    \/ ReplaceStep
    \/ PunctuationStep
    \/ SpacesStep
    \/ StripStep

SpecNormalize == InitNormalize /\ [][NextNormalize]_vars

(***************************************************************************)
(* Properties of normalize_text (under SpecNormalize).                     *)
(***************************************************************************)
Normalized == frame.pc = "done"

\* C12: normalize_text is idempotent: for every input string x,
\* normalize_text(normalize_text(x)) equals normalize_text(x).
C12_NormalizeIdempotent ==
    Normalized =>
        /\ frame.ret = normalize_text(frame.input)
        /\ normalize_text(frame.ret) = frame.ret

\* A text the call changed in every statement: capitals, a replaced letter,
\* punctuation, and whitespace to collapse and to strip.
C12_Witness ==
    /\ Normalized
    /\ frame.ret # <<>>
    /\ lower(frame.input) # frame.input
    /\ replace_all(lower(frame.input)) # lower(frame.input)
    /\ \E i \in 1..Len(frame.input) :
           ~IsWordChar(frame.input[i]) /\ ~IsSpace(frame.input[i])

\* The characters of the canonical form as the specification words it.
CanonicalChars == AsciiLowerLetters \cup Digits \cup {"_", " "}

\* C13: for every input string, the output of normalize_text contains only
\* ASCII lowercase letters, digits, underscores and single spaces, with no
\* uppercase letter, no non-ASCII letter, no punctuation, no leading or
\* trailing space and no run of two spaces.
C13_NormalizedIsCanonicalAscii ==
    Normalized =>
        /\ \A i \in 1..Len(frame.ret) : frame.ret[i] \in CanonicalChars
        /\ frame.ret # <<>> => frame.ret[1] # " " /\ frame.ret[Len(frame.ret)] # " "
        /\ \A i \in 1..(Len(frame.ret) - 1) :
               ~(frame.ret[i] = " " /\ frame.ret[i + 1] = " ")


(***************************************************************************)
(* The tokenizer of search_products, statement by statement: the           *)
(* specification SpecTokenize runs it on the frame for every query of      *)
(* Queries.                                                                *)
(***************************************************************************)
\* "a"  "AC"  "24V"  "sari" (dotless i)  "x,y"  "LED-24"  "led"
QueryWordVocab ==
    {<<"a">>,
     <<"A","C">>,
     <<"2","4","V">>,
     <<"s","a","r","U0131">>,
     <<"x",",","y">>,
     <<"L","E","D","-","2","4">>,
     <<"l","e","d">>}

\* The words ws joined by single spaces.
RECURSIVE JoinWords(_)
JoinWords(ws) ==
    IF ws = <<>> THEN <<>>
    ELSE IF Len(ws) = 1 THEN ws[1]
    ELSE ws[1] \o <<" ">> \o JoinWords(Tail(ws))

\* The queries: up to MaxQueryLen words typed with spaces between them, and
\* the raw queries of the store's searches.
Queries ==
    RawQueries
    \cup {JoinWords(ws) : ws \in UNION {[1..n -> QueryWordVocab] : n \in 0..MaxQueryLen}}

NewTokenizeCall(q) ==
    [pc |-> "normalize", q |-> q, normalized_query |-> Unset, query_words |-> Unset]

InitTokenize ==
    /\ products = <<>>
    /\ upload = NoUpload
    /\ response = NoResponse
    /\ fetched = NotFetched
    /\ clock = 0
    /\ \E q \in Queries : frame = NewTokenizeCall(q)

\* normalized_query = normalize_text(q)
NormalizeQueryStep ==
    /\ frame.pc = "normalize"
    /\ frame' = [frame EXCEPT !.pc = "split",
                              !.normalized_query = normalize_text(frame.q)]
    /\ UNCHANGED <<products, upload, response, fetched, clock>>

\* query_words = [word for word in normalized_query.split() if len(word) > 1]
SplitQueryStep ==
    /\ frame.pc = "split"
    /\ frame' = [frame EXCEPT !.pc = "done",
                              !.query_words = split_query(frame.normalized_query)]
    /\ UNCHANGED <<products, upload, response, fetched, clock>>

NextTokenize ==
    \/ NormalizeQueryStep
    \/ SplitQueryStep

SpecTokenize == InitTokenize /\ [][NextTokenize]_vars

(***************************************************************************)
(* Properties of the tokenizer (under SpecTokenize).                       *)
(***************************************************************************)
Tokenized == frame.pc = "done"

\* The maximal runs of non-whitespace characters of text, as the pairs of
\* their first and last position.
Runs(text) ==
    {r \in (1..Len(text)) \X (1..Len(text)) :
        /\ r[1] <= r[2]
        /\ \A i \in r[1]..r[2] : ~IsSpace(text[i])
        /\ r[1] = 1 \/ IsSpace(text[r[1] - 1])
        /\ r[2] = Len(text) \/ IsSpace(text[r[2] + 1])}

\* The runs of text of two characters or more.
LongRuns(text) == {r \in Runs(text) : r[2] - r[1] + 1 >= 2}

FromTokenizer(toks) == tokenize(JoinWords(toks)) = toks

\* C23: for every non-empty token list that the tokenizer produces, at least
\* one of the four groups is non-empty, total_required is at least 1 when the
\* final division is reached, and the call does not return through the
\* total_required == 0 branch.
C23_TotalRequiredPositive ==
    (frame.query_words # <<>> /\ FromTokenizer(frame.query_words)) =>
        /\ \/ frame.query_colors # <<>>
           \/ frame.query_voltages # <<>>
           \/ frame.query_product_types # <<>>
           \/ frame.query_other # <<>>
        /\ frame.pc = "final" => RLeq(One, frame.total_required)
        /\ Returned => frame.exit # "zero"

\* The final division was reached with one group only, a two-letter token
\* that is in none of the keyword tables.
C23_Witness ==
    /\ Returned
    /\ frame.exit = "final"
    /\ FromTokenizer(frame.query_words)
    /\ Len(frame.query_words) = 1
    /\ Len(frame.query_words[1]) = 2
    /\ frame.query_other = frame.query_words
    /\ frame.total_required = One


\* The combined text of the call matches the token w: literally, or for a
\* product type by a related term, or for another term by the partial rule.
TokenMatched(f, w) ==
    \/ Contains(f.all_text, w)
    \/ IsEntry(w, product_type_keywords) /\ found_related(w, f.all_text)
    \/ IsEntry(w, f.query_other) /\ partial_match(w, f.all_text)

OtherRatio(toks, p) ==
    LET text == all_text(p.aciklama, p.marka, p.kod)
    IN  RDiv(RSum([i \in 1..Len(toks) |-> other_award(toks[i], text)]),
             RInt(Len(toks)))

\* The entry p is the product of one of the results of the response.
InResults(p) ==
    \E j \in 1..Len(response.results) : response.results[j].product = p

MoreDescriptions ==
    {<<"C","o","n","t","a","c","t","o","r"," ","3","P">>,
     <<"S","e","n","s","U00F6","r"," ","M","1","2">>,
     <<"L","E","D"," ","l","i","g","h","t">>,
     <<"R","e","l","e"," ","s","o","k","e","t">>,
     <<"R","U00F6","l","e"," ","2","4","V">>}

AwardTexts ==
    {all_text(d, b, c) : d \in Descriptions \cup MoreDescriptions,
                         b \in Brands, c \in Codes}

NewAwardPass(ptype, text) ==
    [pc |-> "award", ptype |-> ptype, all_text |-> text, product_type_score |-> Zero]

InitAward ==
    /\ products = <<>>
    /\ upload = NoUpload
    /\ response = NoResponse
    /\ fetched = NotFetched
    /\ clock = 0
    /\ \E k \in 1..Len(product_type_keywords), text \in AwardTexts :
           frame = NewAwardPass(product_type_keywords[k], text)

\* The body of `for ptype in query_product_types`
AwardStep ==
    /\ frame.pc = "award"
    /\ frame' = [frame EXCEPT
                   !.pc = "done",
                   !.product_type_score =
                       RAdd(@, product_type_award(frame.ptype, frame.all_text))]
    /\ UNCHANGED <<products, upload, response, fetched, clock>>

NextAward == AwardStep

SpecAward == InitAward /\ [][NextAward]_vars

(***************************************************************************)
(* Properties of the product-type award (under SpecAward).                 *)
(***************************************************************************)
Awarded == frame.pc = "done"

\* kontaktor, role, lamba
DiscountedTypes ==
    {<<"k","o","n","t","a","k","t","o","r">>, <<"r","o","l","e">>,
     <<"l","a","m","b","a">>}

\* led, ledi, ledli, sensor, buton, isik
UndiscountedTypes ==
    {<<"l","e","d">>, <<"l","e","d","i">>, <<"l","e","d","l","i">>,
     <<"s","e","n","s","o","r">>, <<"b","u","t","o","n">>, <<"i","s","i","k">>}

\* C28: the award of 0.8 for a related term is given only to the tokens
\* kontaktor, role and lamba; for led, ledi, ledli, sensor, buton and isik
\* the award is 1.0 or 0, because each of them has no entry in related_terms
\* or an entry whose terms all contain the token itself.
C28_RelatedAwardOnlyForThreeTypes ==
    /\ \A k \in 1..Len(product_type_keywords) :
           product_type_keywords[k] \in DiscountedTypes \cup UndiscountedTypes
    /\ \A k \in 1..Len(related_terms) :
           related_terms[k][1] \in UndiscountedTypes =>
               \A r \in 1..Len(related_terms[k][2]) :
                   Contains(related_terms[k][2][r], related_terms[k][1])
    /\ Awarded =>
           /\ frame.product_type_score \in {Zero, RelatedAward, One}
           /\ frame.product_type_score = RelatedAward => frame.ptype \in DiscountedTypes
           /\ frame.ptype \in UndiscountedTypes =>
                  frame.product_type_score \in {Zero, One}

\* The token isik on a text that has a term listed with lamba ('light') and
\* not isik itself: the award is 0, not 0.8.
C28_Witness ==
    /\ Awarded
    /\ frame.ptype = <<"i","s","i","k">>
    /\ Contains(frame.all_text, <<"l","i","g","h","t">>)
    /\ frame.product_type_score = Zero


(***************************************************************************)
(* calculate_relevance_score statement by statement, where the gates above *)
(* take a block at a time: the specification SpecStatements runs it on the *)
(* frame with one step for each assignment to total_matches and to         *)
(* total_required.                                                         *)
(***************************************************************************)
\* Variant: the colour loop without its break, adding 1.0 for every colour
\* of the query that the text holds.
color_loop_NoBreak(f) ==
    IF f.query_colors = <<>>
    THEN [f EXCEPT !.pc = "voltage"]
    ELSE [f EXCEPT !.total_matches =
                       RAdd(@, RInt(Cardinality(
                           {i \in 1..Len(f.query_colors) :
                               Contains(f.all_text, f.query_colors[i])}))),
                   !.pc = "color_required"]

\* for color in query_colors: if color in all_text: ... total_matches += 1.0; break
color_loop(f) ==
    IF f.query_colors = <<>>
    THEN [f EXCEPT !.pc = "voltage"]
    ELSE [f EXCEPT !.total_matches = IF color_found(f) THEN RAdd(@, One) ELSE @,
                   !.pc = "color_required"]

\* total_required += 1.0; if not color_found: return 0.0
color_required(f) ==
    LET g == [f EXCEPT !.total_required = RAdd(@, One)]
    IN  IF color_found(f) THEN [g EXCEPT !.pc = "voltage"]
        ELSE Return(g, "color", Zero)

\* for voltage in query_voltages: if voltage in all_text: ... total_matches += 1.0; break
voltage_loop(f) ==
    IF f.query_voltages = <<>>
    THEN [f EXCEPT !.pc = "product_type"]
    ELSE [f EXCEPT !.total_matches = IF voltage_found(f) THEN RAdd(@, One) ELSE @,
                   !.pc = "voltage_required"]

\* total_required += 1.0; if not voltage_found: return 0.0
voltage_required(f) ==
    LET g == [f EXCEPT !.total_required = RAdd(@, One)]
    IN  IF voltage_found(f) THEN [g EXCEPT !.pc = "product_type"]
        ELSE Return(g, "voltage", Zero)

\* The product-type loop, the ratio and its test against 0.7
product_type_ratio(f) ==
    IF f.query_product_types = <<>>
    THEN [f EXCEPT !.pc = "other"]
    ELSE LET ratio == RDiv(product_type_score(f), RInt(Len(f.query_product_types)))
             g == [f EXCEPT !.product_type_match_ratio = ratio]
         IN  IF RLess(ratio, ProductTypeThreshold)
             THEN Return(g, "product_type", Zero)
             ELSE [g EXCEPT !.pc = "product_type_matches"]

\* total_matches += product_type_match_ratio
product_type_matches(f) ==
    [f EXCEPT !.total_matches = RAdd(@, f.product_type_match_ratio),
              !.pc = "product_type_required"]

\* total_required += 1.0
product_type_required(f) ==
    [f EXCEPT !.total_required = RAdd(@, One), !.pc = "other"]

\* The loop over the other terms, the ratio and its test against 0.5
other_ratio(f) ==
    IF f.query_other = <<>>
    THEN [f EXCEPT !.pc = "final"]
    ELSE LET ratio == RDiv(other_matches(f), RInt(Len(f.query_other)))
             g == [f EXCEPT !.other_match_ratio = ratio]
         IN  IF RLess(ratio, OtherThreshold)
             THEN Return(g, "other", Zero)
             ELSE [g EXCEPT !.pc = "other_matches"]

\* total_matches += other_match_ratio
other_total_matches(f) ==
    [f EXCEPT !.total_matches = RAdd(@, f.other_match_ratio),
              !.pc = "other_required"]

\* total_required += 1.0
other_required(f) ==
    [f EXCEPT !.total_required = RAdd(@, One), !.pc = "final"]

InitStatements == InitScore

ColorLoopStep ==
    /\ frame.pc = "color"
    /\ frame' = color_loop(frame)
    /\ UNCHANGED <<products, upload, response, fetched, clock>>

ColorRequiredStep ==
    /\ frame.pc = "color_required"
    /\ frame' = color_required(frame)
    /\ UNCHANGED <<products, upload, response, fetched, clock>>

VoltageLoopStep ==
    /\ frame.pc = "voltage"
    /\ frame' = voltage_loop(frame)
    /\ UNCHANGED <<products, upload, response, fetched, clock>>

VoltageRequiredStep ==
    /\ frame.pc = "voltage_required"
    /\ frame' = voltage_required(frame)
    /\ UNCHANGED <<products, upload, response, fetched, clock>>

ProductTypeRatioStep ==
    /\ frame.pc = "product_type"
    /\ frame' = product_type_ratio(frame)
    /\ UNCHANGED <<products, upload, response, fetched, clock>>

ProductTypeMatchesStep ==
    /\ frame.pc = "product_type_matches"
    /\ frame' = product_type_matches(frame)
    /\ UNCHANGED <<products, upload, response, fetched, clock>>

ProductTypeRequiredStep ==
    /\ frame.pc = "product_type_required"
    /\ frame' = product_type_required(frame)
    /\ UNCHANGED <<products, upload, response, fetched, clock>>

OtherRatioStep ==
    /\ frame.pc = "other"
    /\ frame' = other_ratio(frame)
    /\ UNCHANGED <<products, upload, response, fetched, clock>>

OtherMatchesStep ==
    /\ frame.pc = "other_matches"
    /\ frame' = other_total_matches(frame)
    /\ UNCHANGED <<products, upload, response, fetched, clock>>

OtherRequiredStep ==
    /\ frame.pc = "other_required"
    /\ frame' = other_required(frame)
    /\ UNCHANGED <<products, upload, response, fetched, clock>>

NextStatements ==
    \/ ColorLoopStep
    \/ ColorRequiredStep
    \/ VoltageLoopStep
    \/ VoltageRequiredStep
    \/ ProductTypeRatioStep
    \/ ProductTypeMatchesStep
    \/ ProductTypeRequiredStep
    \/ OtherRatioStep
    \/ OtherMatchesStep
    \/ OtherRequiredStep
    \/ FinalStep

SpecStatements == InitStatements /\ [][NextStatements]_vars

(***************************************************************************)
(* Properties of the two totals (under SpecStatements).                    *)
(***************************************************************************)
\* The call is between two groups: before a group's block, or after the last.
BetweenGroups ==
    frame.pc \in {"color", "voltage", "product_type", "other", "final", "done"}

\* C29 as claimed: at every point of calculate_relevance_score,
\* total_matches is at most total_required.
C29_MatchesAtMostRequired ==
    RLeq(frame.total_matches, frame.total_required)

\* C29, amended: between two groups, and so at the final division,
\* total_matches is at most total_required; inside a group's block
\* total_matches is raised first, so it may exceed total_required there, by
\* at most 1.0; each group adds at most 1.0 to total_matches; the value
\* returned at the end is total_matches / total_required, which the cap at
\* 1.0 leaves as it is, and it is the value of the function taken a block at
\* a time.
C29_MatchesAtMostRequiredBetweenGroups ==
    /\ BetweenGroups => RLeq(frame.total_matches, frame.total_required)
    /\ RLeq(frame.total_matches, RAdd(frame.total_required, One))
    /\ frame.product_type_match_ratio # Unset => RLeq(frame.product_type_match_ratio, One)
    /\ frame.other_match_ratio # Unset => RLeq(frame.other_match_ratio, One)
    /\ (Returned /\ frame.exit = "final") =>
           /\ RLeq(One, frame.total_required)
           /\ frame.ret = RDiv(frame.total_matches, frame.total_required)
    /\ Returned => frame = RunFrame([frame EXCEPT !.pc = "color",
                                                  !.total_matches = Zero,
                                                  !.total_required = Zero,
                                                  !.product_type_match_ratio = Unset,
                                                  !.other_match_ratio = Unset,
                                                  !.exit = "",
                                                  !.ret = Unset])

\* Inside the block of the product types, after a colour matched: the ratio
\* is in total_matches and total_required is still to be raised.
C29_Witness ==
    /\ frame.pc = "product_type_required"
    /\ frame.query_colors # <<>>
    /\ RLess(frame.total_required, frame.total_matches)


(***************************************************************************)
(* upload_excel on its own, statement by statement, against a store whose  *)
(* operations may raise: the specification SpecUpload runs one request on  *)
(* the frame, for every file of Files and every catalog of Catalogs.  The  *)
(* frame keeps the catalog as the request found it.                        *)
(***************************************************************************)
\* The catalogs a request may find: no entry, or the entries of an earlier
\* upload.
Catalogs == {process_rows(file.rows, 0, <<>>) : file \in {f \in Files : f.ok}}

NewUploadCall(file, collection) ==
    [pc |-> "check", file |-> file, before |-> collection]

InitUpload ==
    /\ upload = NoUpload
    /\ response = NoResponse
    /\ fetched = NotFetched
    /\ clock = 0
    /\ \E file \in Files, collection \in Catalogs :
           /\ products = collection
           /\ frame = NewUploadCall(file, collection)

\* The checks of the file name, of the content and of the columns
UploadCheckStep ==
    /\ frame.pc = "check"
    /\ IF frame.file.ok
       THEN /\ frame' = [frame EXCEPT !.pc = "delete"]
            /\ UNCHANGED response
       ELSE /\ frame' = [frame EXCEPT !.pc = "done"]
            /\ response' = [kind |-> "error", status |-> rejection_status(frame.file)]
    /\ UNCHANGED <<products, upload, fetched, clock>>

\* await db.products.delete_many({})
UploadDeleteStep ==
    /\ frame.pc = "delete"
    /\ products' = delete_many(products)
    /\ frame' = [frame EXCEPT !.pc = "insert"]
    /\ UNCHANGED <<upload, response, fetched, clock>>

\* delete_many raises: 500 from `except Exception`.  The store may have
\* carried the delete out before the error reached the handler, or not.
UploadDeleteFailsStep ==
    /\ frame.pc = "delete"
    /\ products' \in {products, delete_many(products)}
    /\ response' = [kind |-> "error", status |-> 500]
    /\ frame' = [frame EXCEPT !.pc = "done"]
    /\ UNCHANGED <<upload, fetched, clock>>

\* The rows processed, await db.products.insert_many(products) when there
\* are any, and the UploadResponse.
UploadInsertStep ==
    /\ frame.pc = "insert"
    /\ clock' = clock + 1
    /\ LET made == process_rows(frame.file.rows, clock', <<>>)
       IN  /\ products' = products \o made
           /\ response' = [kind           |-> "upload",
                           products_count |-> Len(made),
                           upload_date    |-> clock']
    /\ frame' = [frame EXCEPT !.pc = "done"]
    /\ UNCHANGED <<upload, fetched>>

\* insert_many raises: 500 from `except Exception`.  The insert is ordered,
\* so the store holds the documents that went in before the error: any
\* number of the first of them.
UploadInsertFailsStep ==
    /\ frame.pc = "insert"
    /\ clock' = clock + 1
    /\ LET made == process_rows(frame.file.rows, clock', <<>>)
       IN  /\ made # <<>>
           /\ \E k \in 0..Len(made) : products' = products \o SubSeq(made, 1, k)
    /\ response' = [kind |-> "error", status |-> 500]
    /\ frame' = [frame EXCEPT !.pc = "done"]
    /\ UNCHANGED <<upload, fetched>>

NextUpload ==
    \/ UploadCheckStep
    \/ UploadDeleteStep
    \/ UploadDeleteFailsStep
    \/ UploadInsertStep
    \/ UploadInsertFailsStep

SpecUpload == InitUpload /\ [][NextUpload]_vars

(***************************************************************************)
(* Properties of an upload that fails (under SpecUpload).                  *)
(***************************************************************************)
\* C26: an upload request that ends in an error response, 400 or 500, leaves
\* the stored catalog exactly as it was before the request.
C26_UploadErrorLeavesCatalog ==
    (frame.pc = "done" /\ response.kind = "error" /\ response.status \in {400, 500}) =>
        products = frame.before

(***************************************************************************)
(* The floats of calculate_relevance_score.  total_matches, the awards and *)
(* the ratios are Python floats, IEEE 754 doubles: every sum and quotient  *)
(* is rounded to 53 significant bits, ties to even.  A positive double is  *)
(* [n, e], standing for n * 2^e, where n has exactly Precision bits and is *)
(* written as three limbs of LimbBits bits, most significant first; 0.0 is *)
(* FZero.  The scores are far from the overflow and underflow thresholds.  *)
(***************************************************************************)
Precision == 53

\* The bits a dividend is extended by, so that a quotient by an integer
\* below 2^GuardBits keeps a rounding bit.
GuardBits == 8

LimbBits == 21

LimbBase == 2 ^ LimbBits

BZero == <<0, 0, 0>>

BAdd(a, b) ==
    LET l == a[3] + b[3]
        m == a[2] + b[2] + (l \div LimbBase)
    IN  <<a[1] + b[1] + (m \div LimbBase), m % LimbBase, l % LimbBase>>

\* a * 2^s, for s from 0 to LimbBits
BShlSmall(a, s) ==
    LET p  == 2 ^ s
        up == LimbBase \div p
    IN  <<a[1] * p + (a[2] \div up),
          (a[2] % up) * p + (a[3] \div up),
          (a[3] % up) * p>>

\* a * 2^s, for a product below 2^(3 * LimbBits)
BShl(a, s) ==
    IF s >= 2 * LimbBits THEN BShlSmall(<<a[3], 0, 0>>, s - 2 * LimbBits)
    ELSE IF s >= LimbBits THEN BShlSmall(<<a[2], a[3], 0>>, s - LimbBits)
    ELSE BShlSmall(a, s)

\* a \div 2^s, for s from 0 to LimbBits
BShr(a, s) ==
    LET p  == 2 ^ s
        up == LimbBase \div p
    IN  <<a[1] \div p,
          (a[2] \div p) + (a[1] % p) * up,
          (a[3] \div p) + (a[2] % p) * up>>

BitLen1(limb) ==
    CHOOSE k \in 0..(LimbBits + 1) : limb < 2 ^ k /\ (k = 0 \/ 2 ^ (k - 1) <= limb)

BitLen(a) ==
    IF a[1] > 0 THEN 2 * LimbBits + BitLen1(a[1])
    ELSE IF a[2] > 0 THEN LimbBits + BitLen1(a[2])
    ELSE BitLen1(a[3])

BLess(a, b) ==
    \/ a[1] < b[1]
    \/ a[1] = b[1] /\ a[2] < b[2]
    \/ a[1] = b[1] /\ a[2] = b[2] /\ a[3] < b[3]

\* a \div k and a % k, for k from 1 to 2^GuardBits - 1
BDivSmall(a, k) ==
    LET t2 == (a[1] % k) * LimbBase + a[2]
        t3 == (t2 % k) * LimbBase + a[3]
    IN  [quotient |-> <<a[1] \div k, t2 \div k, t3 \div k>>, remainder |-> t3 % k]

FZero == [n |-> BZero, e |-> 0]

\* a * 2^e, plus a positive amount below 2^e if sticky, rounded to
\* Precision bits, ties to even
RoundBig(a, e, sticky) ==
    LET len == BitLen(a)
    IN  IF len = 0 THEN FZero
        ELSE IF len <= Precision
        THEN [n |-> BShl(a, Precision - len), e |-> e - (Precision - len)]
        ELSE LET cut     == len - Precision
                 kept    == BShr(a, cut)
                 dropped == a[3] % (2 ^ cut)
                 half    == 2 ^ (cut - 1)
                 away    == \/ dropped > half
                            \/ dropped = half /\ (sticky \/ kept[3] % 2 = 1)
                 rounded == IF away THEN BAdd(kept, <<0, 0, 1>>) ELSE kept
             IN  IF BitLen(rounded) > Precision
                 THEN [n |-> BShr(rounded, 1), e |-> e + cut + 1]
                 ELSE [n |-> rounded, e |-> e + cut]

\* float(k), for 0 <= k < 2^LimbBits
FInt(k) == RoundBig(<<0, 0, k>>, 0, FALSE)

\* x + y
FAdd(x, y) ==
    IF x = FZero THEN y
    ELSE IF y = FZero THEN x
    ELSE LET e0 == IF x.e < y.e THEN x.e ELSE y.e
         IN  RoundBig(BAdd(BShl(x.n, x.e - e0), BShl(y.n, y.e - e0)), e0, FALSE)

\* x / k, for an integer k from 1 to 2^GuardBits - 1
FDivInt(x, k) ==
    IF x = FZero THEN FZero
    ELSE LET parts == BDivSmall(BShl(x.n, GuardBits), k)
         IN  RoundBig(parts.quotient, x.e - GuardBits, parts.remainder # 0)

\* x < y
FLess(x, y) ==
    IF y = FZero THEN FALSE
    ELSE IF x = FZero THEN TRUE
    ELSE LET e0 == IF x.e < y.e THEN x.e ELSE y.e
         IN  BLess(BShl(x.n, x.e - e0), BShl(y.n, y.e - e0))

\* min(x, y)
FMin(x, y) == IF FLess(y, x) THEN y ELSE x

\* The double a decimal literal such as 0.8 denotes: the one nearest to the
\* rational r.
FromRat(r) == IF r[1] = 0 THEN FZero ELSE FDivInt(FInt(r[1]), r[2])

\* The next double above x.
FUp(x) == RoundBig(BAdd(x.n, <<0, 0, 1>>), x.e, FALSE)

\* score = 0.0, then score += award for each award in turn
RECURSIVE FSum(_)
FSum(awards) ==
    IF awards = <<>> THEN FZero
    ELSE FAdd(FSum(SubSeq(awards, 1, Len(awards) - 1)), awards[Len(awards)])

(***************************************************************************)
(* The four blocks of calculate_relevance_score in floats, each as the     *)
(* step of a call that may take the blocks it has not executed yet (todo)  *)
(* in any order; the final division follows the last of them.              *)
(***************************************************************************)
Gates == {"color", "voltage", "product_type", "other"}

NewOrderFrame(query_words, description, brand, code) ==
    [pc                  |-> "gates",
     todo                |-> Gates,
     query_words         |-> query_words,
     all_text            |-> all_text(description, brand, code),
     query_colors        |-> query_colors(query_words),
     query_voltages      |-> query_voltages(query_words),
     query_product_types |-> query_product_types(query_words),
     query_other         |-> query_other(query_words),
     total_matches       |-> FZero,
     total_required      |-> FZero,
     ret                 |-> Unset]

\* return 0.0
reject(f) == [f EXCEPT !.pc = "done", !.ret = FZero]

color_block(f) ==
    IF f.query_colors = <<>> THEN f
    ELSE IF color_found(f)
         THEN [f EXCEPT !.total_matches = FAdd(@, FInt(1)),
                        !.total_required = FAdd(@, FInt(1))]
         ELSE reject(f)

voltage_block(f) ==
    IF f.query_voltages = <<>> THEN f
    ELSE IF voltage_found(f)
         THEN [f EXCEPT !.total_matches = FAdd(@, FInt(1)),
                        !.total_required = FAdd(@, FInt(1))]
         ELSE reject(f)

product_type_block(f) ==
    IF f.query_product_types = <<>> THEN f
    ELSE LET product_type_score_f ==
                 FSum([i \in 1..Len(f.query_product_types) |->
                          FromRat(product_type_award(f.query_product_types[i],
                                                     f.all_text))])
             ratio == FDivInt(product_type_score_f, Len(f.query_product_types))
         IN  IF FLess(ratio, FromRat(ProductTypeThreshold))
             THEN reject(f)
             ELSE [f EXCEPT !.total_matches = FAdd(@, ratio),
                            !.total_required = FAdd(@, FInt(1))]

\* Variant: the other-terms block without its rejection.
other_block_NoReject(f) ==
    IF f.query_other = <<>> THEN f
    ELSE LET other_matches_f ==
                 FSum([i \in 1..Len(f.query_other) |->
                          FromRat(other_award(f.query_other[i], f.all_text))])
             ratio == FDivInt(other_matches_f, Len(f.query_other))
         IN  [f EXCEPT !.total_matches = FAdd(@, ratio),
                       !.total_required = FAdd(@, FInt(1))]

other_block(f) ==
    IF f.query_other = <<>> THEN f
    ELSE LET other_matches_f ==
                 FSum([i \in 1..Len(f.query_other) |->
                          FromRat(other_award(f.query_other[i], f.all_text))])
             ratio == FDivInt(other_matches_f, Len(f.query_other))
         IN  IF FLess(ratio, FromRat(OtherThreshold))
             THEN reject(f)
             ELSE [f EXCEPT !.total_matches = FAdd(@, ratio),
                            !.total_required = FAdd(@, FInt(1))]

\* total_required counts the groups: a whole number from 1 to 4.
groups_required(f) == CHOOSE k \in 1..Cardinality(Gates) : FInt(k) = f.total_required

final_block(f) ==
    IF f.total_required = FZero
    THEN [f EXCEPT !.pc = "done", !.ret = FZero]
    ELSE [f EXCEPT !.pc = "done",
                   !.ret = FMin(FDivInt(f.total_matches, groups_required(f)),
                                FInt(1))]

\* The block of the gate, and the gate struck from todo if the call goes on.
gate_block(f, gate) ==
    LET after == CASE gate = "color"        -> color_block(f)
                   [] gate = "voltage"      -> voltage_block(f)
                   [] gate = "product_type" -> product_type_block(f)
                   [] gate = "other"        -> other_block(f)
    IN  IF after.pc = "done" THEN after
        ELSE [after EXCEPT !.todo = @ \ {gate}]

\* The call in the order of the code: colour, voltage, product type, other.
RECURSIVE run_in_order(_, _)
run_in_order(f, gates) ==
    IF f.pc = "done" THEN f
    ELSE IF gates = <<>> THEN final_block(f)
    ELSE run_in_order(gate_block(f, Head(gates)), Tail(gates))

code_order == <<"color", "voltage", "product_type", "other">>

\* 24v role sinyal lambasi montajli sari
OrderWords ==
    << <<"2","4","v">>,
       <<"r","o","l","e">>,
       <<"s","i","n","y","a","l">>,
       <<"l","a","m","b","a","s","i">>,
       <<"m","o","n","t","a","j","l","i">>,
       <<"s","a","r","i">> >>

RECURSIVE words_at(_, _)
words_at(places, i) ==
    IF i > Len(OrderWords) THEN <<>>
    ELSE (IF i \in places THEN <<OrderWords[i]>> ELSE <<>>) \o words_at(places, i + 1)

\* The queries made of some of OrderWords, in their order.
OrderQueries == {words_at(places, 1) : places \in SUBSET (1..Len(OrderWords))}

\* "Relay 24V sinyal lambasi montaj" (with the Turkish dotless i), and the
\* descriptions of the scorer's own specification
OrderDescriptions ==
    Descriptions \cup
    {<<"R","e","l","a","y"," ","2","4","V"," ","s","i","n","y","a","l"," ",
       "l","a","m","b","a","s","U0131"," ","m","o","n","t","a","j">>}

InitOrder ==
    /\ products = <<>>
    /\ upload = NoUpload
    /\ response = NoResponse
    /\ fetched = NotFetched
    /\ clock = 0
    /\ \E q \in OrderQueries, d \in OrderDescriptions :
           frame = NewOrderFrame(q, d, <<"A","B","B">>, <<"X","1">>)

ColorOrderStep ==
    /\ frame.pc = "gates"
    /\ "color" \in frame.todo
    /\ frame' = gate_block(frame, "color")
    /\ UNCHANGED <<products, upload, response, fetched, clock>>

VoltageOrderStep ==
    /\ frame.pc = "gates"
    /\ "voltage" \in frame.todo
    /\ frame' = gate_block(frame, "voltage")
    /\ UNCHANGED <<products, upload, response, fetched, clock>>

ProductTypeOrderStep ==
    /\ frame.pc = "gates"
    /\ "product_type" \in frame.todo
    /\ frame' = gate_block(frame, "product_type")
    /\ UNCHANGED <<products, upload, response, fetched, clock>>

OtherOrderStep ==
    /\ frame.pc = "gates"
    /\ "other" \in frame.todo
    /\ frame' = gate_block(frame, "other")
    /\ UNCHANGED <<products, upload, response, fetched, clock>>

FinalOrderStep ==
    /\ frame.pc = "gates"
    /\ frame.todo = {}
    /\ frame' = final_block(frame)
    /\ UNCHANGED <<products, upload, response, fetched, clock>>

NextOrder ==
    \/ ColorOrderStep
    \/ VoltageOrderStep
    \/ ProductTypeOrderStep
    \/ OtherOrderStep
    \/ FinalOrderStep

SpecOrder == InitOrder /\ [][NextOrder]_vars

(***************************************************************************)
(* Properties of the order of the gates (under SpecOrder).                 *)
(***************************************************************************)
\* The call under way, back before its first block.
Restarted(f) ==
    [f EXCEPT !.pc = "gates", !.todo = Gates, !.total_matches = FZero,
              !.total_required = FZero, !.ret = Unset]

\* What the call under way returns when its blocks run in the code's order.
ScoreInCodeOrder == run_in_order(Restarted(frame), code_order).ret

\* Some gate rejects the entry, whatever ran before it.
SomeGateRejects(f) ==
    \/ ColorMiss(f)
    \/ VoltageMiss(f)
    \/ f.query_product_types # <<>> /\ RLess(C4_Ratio(f), <<7, 10>>)
    \/ f.query_other # <<>>
           /\ RLess(RDiv(other_matches(f), RInt(Len(f.query_other))), <<1, 2>>)

\* The groups of the query that hold a token.
GroupsPresent(f) ==
    {g \in Gates :
        \/ g = "color" /\ f.query_colors # <<>>
        \/ g = "voltage" /\ f.query_voltages # <<>>
        \/ g = "product_type" /\ f.query_product_types # <<>>
        \/ g = "other" /\ f.query_other # <<>>}

\* x and y are at most three doubles apart.
Near(x, y) ==
    IF x = FZero \/ y = FZero THEN x = y
    ELSE ~FLess(FUp(FUp(FUp(x))), y) /\ ~FLess(FUp(FUp(FUp(y))), x)

\* C24 as claimed: evaluating the gates in any permutation gives the same
\* score as the order colour, voltage, product type, other.
C24_SameScoreInEveryOrder ==
    Returned => frame.ret = ScoreInCodeOrder

\* C24, amended: in every order of the gates the score is 0 whenever any one
\* gate rejects, and nonzero in every order when none does and the query has
\* a group; with at most two groups in the query every order gives the very
\* score of the code's order, and with three or four the scores of two
\* orders are the same up to the rounding of the float sums, at most
\* three doubles apart.
C24_OrderChangesRoundingOnly ==
    Returned =>
        /\ SomeGateRejects(frame) => frame.ret = FZero
        /\ (~SomeGateRejects(frame) /\ GroupsPresent(frame) # {}) =>
               frame.ret # FZero
        /\ Cardinality(GroupsPresent(frame)) <= 2 => frame.ret = ScoreInCodeOrder
        /\ Near(frame.ret, ScoreInCodeOrder)

\* A call that took the gates in another order than the code and returned
\* another score than the code's order: no gate rejected, three groups.
C24_Witness ==
    /\ Returned
    /\ frame.todo = {}
    /\ ~SomeGateRejects(frame)
    /\ Cardinality(GroupsPresent(frame)) = 3
    /\ frame.ret # ScoreInCodeOrder

====
